---- MODULE Spec2Model ----
(***************************************************************************)
(* Session orchestrator of the voice client (class Client), its wrapped    *)
(* callback table and the part of the Transport contract it relies on.     *)
(*                                                                         *)
(* Every synchronous method of Client is one action.  start() is split at  *)
(* its suspension points.  Each action records what the call did in the    *)
(* per-call logs `call' (operation, arguments, outcome), `sent' (the       *)
(* transport.sendMessage invocations of the call, in order) and `trace'    *)
(* (the caller callbacks, emits and listener runs of the call, in order).  *)
(***************************************************************************)
EXTENDS Integers, Sequences, FiniteSets, TLC

VARIABLES
    state,        \* this._transport.state
    config,       \* this._options.config  (key -> value)
    expiry,       \* this._transport.expiry
    callbacks,    \* names of the caller-supplied callbacks (options.callbacks)
    listeners,    \* event -> number of listeners subscribed with on()
    pc,           \* position of the start() call in flight
    room,         \* start(): local `room'
    token,        \* start(): local `token'
    startConfig,  \* start(): local `config'
    requests,     \* external requests start() has issued, in order
    startResult,  \* outcome of the latest start()
    call,         \* the latest synchronous operation and its outcome
    sent,         \* messages passed to transport.sendMessage by that operation
    trace         \* callbacks / emits / listeners run by that operation

vars == <<state, config, expiry, callbacks, listeners, pc, room, token,
          startConfig, requests, startResult, call, sent, trace>>

startVars == <<pc, room, token, startConfig, requests, startResult>>

----------------------------------------------------------------------------
(* Bounds of the model *)

\* longest messages array a caller passes in a configuration
MaxMsgs == 1
\* most listeners subscribed over all events
MaxSubs == 2

----------------------------------------------------------------------------
(* Values.  A JavaScript value is tagged with its shape, as deepmerge-ts   *)
(* tells records, arrays and everything else apart by shape.               *)

Str(s) == [kind |-> "str", val |-> s]
Arr(a) == [kind |-> "arr", val |-> a]
Rec(f) == [kind |-> "rec", val |-> f]
NoArg == [kind |-> "none", val |-> <<>>]

EmptyRecord == [k \in {} |-> NoArg]

\* the record with key k bound to v added to (or replaced in) f
With(f, k, v) == [x \in DOMAIN f \cup {k} |-> IF x = k THEN v ELSE f[x]]

\* VoiceClientLLMMessage values, kept abstract
LLMMessages == {"a", "b"}

RECURSIVE SeqsUpTo(_, _)
SeqsUpTo(S, n) ==
    IF n = 0 THEN {<<>>}
    ELSE LET shorter == SeqsUpTo(S, n - 1)
         IN  shorter \cup {Append(s, x) : s \in shorter, x \in S}

\* VoiceClientConfigLLM: { model?: string; messages?: VoiceClientLLMMessage[] }
VoiceClientConfigLLM ==
    LET models == {EmptyRecord, With(EmptyRecord, "model", Str("m1"))}
    IN  models \cup
        {With(m, "messages", Arr(a)) : m \in models, a \in SeqsUpTo(LLMMessages, MaxMsgs)}

\* ConfigTTSOptions: { voice?: string }
ConfigTTSOptions == {With(EmptyRecord, "voice", Str("v1"))}

\* VoiceClientConfigOptions: { llm?: VoiceClientConfigLLM; tts?: ConfigTTSOptions }
VoiceClientConfigOptions ==
    LET llms == {EmptyRecord} \cup {With(EmptyRecord, "llm", Rec(l)) : l \in VoiceClientConfigLLM}
    IN  llms \cup {With(c, "tts", Rec(t)) : c \in llms, t \in ConfigTTSOptions}

\* the few configurations used where the merge itself is not under study
SmallConfigs ==
    { EmptyRecord,
      With(EmptyRecord, "tts", Rec(With(EmptyRecord, "voice", Str("v1")))),
      With(EmptyRecord, "llm", Rec(With(EmptyRecord, "model", Str("m1")))) }

----------------------------------------------------------------------------
(* deepmergeCustom({ mergeArrays: false }) *)

\* the default of deepmerge-ts (mergeArrays left on): arrays are concatenated
mergeArraysConcat(a, b) == Arr(a.val \o b.val)

\* mergeArrays: false makes an array a leaf: the last value wins
mergeArrays(a, b) == b

RECURSIVE mergeRecords(_, _)
RECURSIVE mergeUnknowns(_, _)

\* two values found under the same key
mergeUnknowns(a, b) ==
    IF a.kind = "rec" /\ b.kind = "rec" THEN Rec(mergeRecords(a.val, b.val))
    ELSE IF a.kind = "arr" /\ b.kind = "arr" THEN mergeArrays(a, b)
    ELSE b

\* records merge key by key; a key on one side only keeps its value
mergeRecords(x, y) ==
    [k \in DOMAIN x \cup DOMAIN y |->
        IF k \in DOMAIN x /\ k \in DOMAIN y THEN mergeUnknowns(x[k], y[k])
        ELSE IF k \in DOMAIN y THEN y[k]
        ELSE x[k]]

customMerge(x, y) == mergeRecords(x, y)

----------------------------------------------------------------------------
(* Configuration *)

\* object spread { ...a, ...b }
Spread(a, b) == [k \in DOMAIN a \cup DOMAIN b |-> IF k \in DOMAIN b THEN b[k] ELSE a[k]]

\* a setter that assigns the given object as it is
ConfigSetterReplace(old, c) == c

\* protected set config(config)
ConfigSetter(old, c) == Spread(old, c)

\* an updateConfig that never takes the deep-merge branch
updateConfigValueShallow(old, c, useDeepMerge) == c

\* the value updateConfig assigns to this.config
updateConfigValue(old, c, useDeepMerge) ==
    IF useDeepMerge THEN customMerge(old, c) ELSE c

----------------------------------------------------------------------------
(* Messages *)

\* the type tags of the messages (VoiceMessageType)
BOT_READY == "bot-ready"
VoiceMessageType == {BOT_READY, "config", "transcript"}

VoiceMessage_config(c) == [type |-> "config", data |-> Rec(c)]
VoiceMessage_updateLLMContext(l) == [type |-> "llm-context-update", data |-> Rec(l)]
VoiceMessage_appendLLMContext(ms) == [type |-> "llm-context-append", data |-> Arr(ms)]
VoiceMessage_speak(text, interrupt) ==
    [type |-> "speak", data |-> [kind |-> "speak", val |-> <<text, interrupt>>]]
VoiceMessage_interrupt == [type |-> "interrupt", data |-> NoArg]

\* an updateConfig that sends whatever the transport state
updateConfigSendsUngated(st, c, full, sendPartial) ==
    <<VoiceMessage_config(IF sendPartial THEN c ELSE full)>>

\* an updateConfig that always sends the whole configuration
updateConfigSendsFull(st, c, full, sendPartial) ==
    IF st = "ready" THEN <<VoiceMessage_config(full)>> ELSE <<>>

\* the config message updateConfig passes to the transport, if any
updateConfigSends(st, c, full, sendPartial) ==
    IF st = "ready" THEN <<VoiceMessage_config(IF sendPartial THEN c ELSE full)>>
    ELSE <<>>

----------------------------------------------------------------------------
(* Transport state *)

\* enum TransportState
TransportState == {"idle", "connecting", "connected", "disconnected", "error"}

\* every value this._transport.state takes: the enum, the marker start()
\* writes and the value handleMessage writes
States == TransportState \cup {"handshaking", "ready"}

\* a sender that takes a connected transport for a ready one
senderReadyOrConnected(st) == st = "connected" \/ st = "ready"

\* the guard of say, interrupt and appendLLMContext
senderReady(st) == st = "ready"

\* a getter that insists on ready
expiryReadableWhenReady(st) == st = "ready"

\* the guard of the transportExpiry getter
expiryReadable(st) == st = "connected" \/ st = "ready"

----------------------------------------------------------------------------
(* Callback table and events *)

\* the keys of VoiceEventCallbacks
CallbackNames ==
    {"onConnected", "onDisconnected", "onTransportStateChanged", "onConfigUpdated",
     "onBotConnected", "onBotReady", "onBotDisconnected",
     "onParticipantJoined", "onParticipantLeft", "onTrackStarted", "onTrackStopped",
     "onLocalAudioLevel", "onRemoteAudioLevel",
     "onBotStartedTalking", "onBotStoppedTalking",
     "onLocalStartedTalking", "onLocalStoppedTalking",
     "onTranscript", "onJsonCompletion"}

\* the entries the constructor replaces by a wrapper; the other entries of
\* wrappedCallbacks are the caller's own functions, copied by the spread
WrappedNames ==
    CallbackNames \ {"onBotConnected", "onBotDisconnected", "onTranscript", "onJsonCompletion"}

\* the event each wrapper emits
EventOf(name) ==
    CASE name = "onConnected" -> "Connected"
      [] name = "onDisconnected" -> "Disconnected"
      [] name = "onTransportStateChanged" -> "TransportStateChanged"
      [] name = "onConfigUpdated" -> "ConfigUpdated"
      [] name = "onParticipantJoined" -> "ParticipantConnected"
      [] name = "onParticipantLeft" -> "ParticipantLeft"
      [] name = "onTrackStarted" -> "TrackStarted"
      [] name = "onTrackStopped" -> "TrackedStopped"
      [] name = "onBotReady" -> "BotReady"
      [] name = "onBotStartedTalking" -> "BotStartedTalking"
      [] name = "onBotStoppedTalking" -> "BotStoppedTalking"
      [] name = "onRemoteAudioLevel" -> "RemoteAudioLevel"
      [] name = "onLocalStartedTalking" -> "LocalStartedTalking"
      [] name = "onLocalStoppedTalking" -> "LocalStoppedTalking"
      [] name = "onLocalAudioLevel" -> "LocalAudioLevel"

\* the named events of the remaining table entries
UnbridgedEventOf(name) ==
    CASE name = "onBotConnected" -> "BotConnected"
      [] name = "onBotDisconnected" -> "BotDisconnected"
      [] name = "onTranscript" -> "Transcript"
      [] name = "onJsonCompletion" -> "JSONCompletion"

\* the names of VoiceEvent
VoiceEvent ==
    {EventOf(n) : n \in WrappedNames} \cup
    {UnbridgedEventOf(n) : n \in CallbackNames \ WrappedNames}

Entry(kind, name, idx, arg) == [kind |-> kind, name |-> name, idx |-> idx, arg |-> arg]

\* options?.callbacks?.<name>?.(arg)
callerCallback(cbs, name, arg) ==
    IF name \in cbs THEN <<Entry("callback", name, 0, arg)>> ELSE <<>>

\* EventEmitter.emit: the listeners of the event run in the order they subscribed
emit(ls, event, arg) ==
    <<Entry("emit", event, 0, arg)>> \o
    [i \in 1..ls[event] |-> Entry("listener", event, i, arg)]

\* what invoking entry `name' of wrappedCallbacks runs
wrappedCallbacks(cbs, ls, name, arg) ==
    IF name \in WrappedNames
    THEN callerCallback(cbs, name, arg) \o emit(ls, EventOf(name), arg)
    ELSE callerCallback(cbs, name, arg)

RECURSIVE SumOver(_, _)
SumOver(f, S) ==
    IF S = {} THEN 0
    ELSE LET x == CHOOSE y \in S : TRUE IN f[x] + SumOver(f, S \ {x})

NoListeners == [e \in VoiceEvent |-> 0]

----------------------------------------------------------------------------
(* Per-call logs *)

\* the record of an operation: what it was given, the transport state and the
\* configuration it found, whether it returned ("ok") or threw, what it returned
CallOn(op, st, cfg, arg, deep, partial, result, ret) ==
    [op |-> op, pre |-> st, preConfig |-> cfg, arg |-> arg, useDeepMerge |-> deep,
     sendPartial |-> partial, result |-> result, ret |-> ret]

Call(op, arg, deep, partial, result, ret) ==
    CallOn(op, state, config, arg, deep, partial, result, ret)

\* the inputs of the operations
SayTexts == {"hello"}
AppendInputs ==
    {Str(m) : m \in LLMMessages} \cup {Arr(a) : a \in SeqsUpTo(LLMMessages, MaxMsgs)}
InboundMessages == [type : VoiceMessageType, transcript : BOOLEAN]
Rooms == {"", "r1"}
Tokens == {"", "t1"}

----------------------------------------------------------------------------
(* State after construction *)

\* the expiry timestamps the transport reports
Expiries == {1, 2}

InitWith(configs, callbackSets, expiries) ==
    /\ state = "idle"
    /\ config \in configs
    /\ expiry \in expiries
    /\ callbacks \in callbackSets
    /\ listeners = NoListeners
    /\ pc = "none"
    /\ room = ""
    /\ token = ""
    /\ startConfig = EmptyRecord
    /\ requests = <<>>
    /\ startResult = "none"
    /\ call = CallOn("none", "idle", config, NoArg, FALSE, FALSE, "ok", 0)
    /\ sent = <<>>
    /\ trace = <<>>

----------------------------------------------------------------------------
(* Configuration methods *)

\* updateConfig(config, { useDeepMerge, sendPartial })
updateConfig(c, useDeepMerge, sendPartial) ==
    LET full == ConfigSetter(config, updateConfigValue(config, c, useDeepMerge))
    IN  /\ config' = full
        /\ sent' = updateConfigSends(state, c, full, sendPartial)
        /\ trace' = wrappedCallbacks(callbacks, listeners, "onConfigUpdated", Rec(full))
        /\ call' = Call("updateConfig", Rec(c), useDeepMerge, sendPartial, "ok", 0)
        /\ UNCHANGED <<state, expiry, callbacks, listeners, startVars>>

\* an llmContext setter that puts L in place of the llm section
llmContextValueReplace(old, l) == Spread(old, With(EmptyRecord, "llm", Rec(l)))

\* the configuration the llmContext setter assigns to this.config
llmContextValue(old, l) ==
    LET oldLLM == IF "llm" \in DOMAIN old THEN old["llm"].val ELSE EmptyRecord
    IN  Spread(old, With(EmptyRecord, "llm", Rec(Spread(oldLLM, l))))

\* set llmContext(llmConfig)
set_llmContext(l) ==
    LET full == ConfigSetter(config, llmContextValue(config, l))
    IN  /\ config' = full
        /\ sent' = IF state = "ready" THEN <<VoiceMessage_updateLLMContext(l)>> ELSE <<>>
        /\ trace' = wrappedCallbacks(callbacks, listeners, "onConfigUpdated", Rec(full))
        /\ call' = Call("llmContext", Rec(l), FALSE, FALSE, "ok", 0)
        /\ UNCHANGED <<state, expiry, callbacks, listeners, startVars>>

----------------------------------------------------------------------------
(* Senders *)

\* a failure reported to the application through its disconnected callback
failureTraceDisconnected(cbs, ls) == wrappedCallbacks(cbs, ls, "onDisconnected", NoArg)

\* what a throw statement of the client runs of the callback table: nothing
failureTrace(cbs, ls) == <<>>

\* what a sender leaves behind: the message passed to the transport, or the
\* VoiceError thrown
Sent(op, arg, msg) ==
    /\ sent' = <<msg>>
    /\ trace' = <<>>
    /\ call' = Call(op, arg, FALSE, FALSE, "ok", 0)

Threw(op, arg) ==
    /\ sent' = <<>>
    /\ trace' = failureTrace(callbacks, listeners)
    /\ call' = Call(op, arg, FALSE, FALSE, "VoiceError", 0)

\* an appendLLMContext that also appends to the retained llm.messages
appendLLMContextConfigAppends(cfg, ms) ==
    LET llm == IF "llm" \in DOMAIN cfg THEN cfg["llm"].val ELSE EmptyRecord
        old == IF "messages" \in DOMAIN llm THEN llm["messages"].val ELSE <<>>
    IN  With(cfg, "llm", Rec(With(llm, "messages", Arr(old \o ms))))

\* the retained configuration after appendLLMContext: the one before
appendLLMContextConfig(cfg, ms) == cfg

\* appendLLMContext(messages): a single message is wrapped into an array
appendLLMContext(messages) ==
    LET ms == IF messages.kind = "arr" THEN messages.val ELSE <<messages.val>>
    IN  /\ IF senderReady(state)
           THEN /\ Sent("appendLLMContext", messages, VoiceMessage_appendLLMContext(ms))
                /\ config' = appendLLMContextConfig(config, ms)
           ELSE /\ Threw("appendLLMContext", messages)
                /\ config' = config
        /\ UNCHANGED <<state, expiry, callbacks, listeners, startVars>>

\* say(text, interrupt)
say(text, interrupt) ==
    /\ IF senderReady(state)
       THEN Sent("say", [kind |-> "speak", val |-> <<text, interrupt>>],
                 VoiceMessage_speak(text, interrupt))
       ELSE Threw("say", [kind |-> "speak", val |-> <<text, interrupt>>])
    /\ UNCHANGED <<state, config, expiry, callbacks, listeners, startVars>>

\* interrupt()
interrupt ==
    /\ IF senderReady(state)
       THEN Sent("interrupt", NoArg, VoiceMessage_interrupt)
       ELSE Threw("interrupt", NoArg)
    /\ UNCHANGED <<state, config, expiry, callbacks, listeners, startVars>>

\* get transportExpiry()
transportExpiry ==
    /\ IF expiryReadable(state)
       THEN /\ call' = Call("transportExpiry", NoArg, FALSE, FALSE, "ok", expiry)
            /\ trace' = <<>>
       ELSE /\ call' = Call("transportExpiry", NoArg, FALSE, FALSE, "VoiceError", 0)
            /\ trace' = failureTrace(callbacks, listeners)
    /\ sent' = <<>>
    /\ UNCHANGED <<state, config, expiry, callbacks, listeners, startVars>>

----------------------------------------------------------------------------
(* Inbound messages *)

\* a handleMessage that honours bot-ready only on a connected transport
handleMessageStateFromConnected(st, ev) ==
    IF ~ev.transcript /\ ev.type = BOT_READY /\ st = "connected" THEN "ready" ELSE st

\* a handleMessage that looks at the type tag before the shape of the message
handleMessageStateTagFirst(st, ev) ==
    IF ev.type = BOT_READY THEN "ready" ELSE st

\* the transport state handleMessage leaves
handleMessageState(st, ev) ==
    IF ev.transcript THEN st
    ELSE IF ev.type = BOT_READY THEN "ready"
    ELSE st

\* the table entry handleMessage invokes, "" for none
handleMessageEntry(ev) ==
    IF ev.transcript THEN "onTranscript"
    ELSE IF ev.type = BOT_READY THEN "onBotReady"
    ELSE ""

\* handleMessage(ev)
handleMessage(ev) ==
    /\ state' = handleMessageState(state, ev)
    /\ trace' = IF handleMessageEntry(ev) = "" THEN <<>>
                ELSE wrappedCallbacks(callbacks, listeners, handleMessageEntry(ev),
                                      IF ev.transcript THEN Rec(ev) ELSE NoArg)
    /\ sent' = <<>>
    /\ call' = Call("handleMessage", Rec(ev), FALSE, FALSE, "ok", 0)
    /\ UNCHANGED <<config, expiry, callbacks, listeners, startVars>>

----------------------------------------------------------------------------
(* start(), one action per stretch between suspension points.  One start() *)
(* is in flight at a time.                                                 *)

\* an external request of start() with what came of it: for authenticate the
\* room and token of the answer, for start_bot the room and configuration of
\* the body, for connect the url and token passed
Request(name, r, t, c, outcome) ==
    [name |-> name, room |-> r, token |-> t, config |-> c, outcome |-> outcome]

\* the errors start() throws
StartErrors == {"AuthenticationError", "RateLimitError", "BotStartError", "TransportError"}

StartStep(result) ==
    /\ call' = Call("start", NoArg, FALSE, FALSE, result, 0)
    /\ sent' = <<>>
    /\ trace' = IF result \in StartErrors THEN failureTrace(callbacks, listeners) ELSE <<>>

\* start() has returned or thrown: its locals are gone
EndOfStart ==
    /\ room' = ""
    /\ token' = ""
    /\ startConfig' = EmptyRecord

\* a start() that leaves a ready transport ready
startStateKeepsReady(st) == IF st = "ready" THEN st ELSE "handshaking"

\* the transport state start() writes first
startState(st) == "handshaking"

\* up to the first await: the marker is written, the configuration object is
\* read and the authentication request is issued
start_begin ==
    /\ pc = "none"
    /\ state' = startState(state)
    /\ startConfig' = config
    /\ room' = ""
    /\ token' = ""
    /\ requests' = <<Request("authenticate", "", "", EmptyRecord, "pending")>>
    /\ startResult' = "pending"
    /\ pc' = "auth"
    /\ StartStep("pending")
    /\ UNCHANGED <<config, expiry, callbacks, listeners>>

\* the authentication request throws (fetch rejects, or the body is not JSON)
start_authThrows ==
    /\ pc = "auth"
    /\ requests' = <<Request("authenticate", "", "", EmptyRecord, "threw")>>
    /\ startResult' = "AuthenticationError"
    /\ pc' = "none"
    /\ StartStep("AuthenticationError")
    /\ EndOfStart
    /\ UNCHANGED <<state, config, expiry, callbacks, listeners>>

\* a check that gives up only when both fields are missing
usableEither(r, t) == r # "" \/ t # ""

\* !(!room || !token)
usable(r, t) == r # "" /\ t # ""

\* the authentication request returns data; "" stands for a missing or empty
\* field.  With both fields usable the bot-start request is issued.
start_authReturns(r, t) ==
    LET answered == <<Request("authenticate", r, t, EmptyRecord, "returned")>>
    IN  /\ pc = "auth"
        /\ IF ~usable(r, t)
           THEN /\ startResult' = "RateLimitError"
                /\ pc' = "none"
                /\ requests' = answered
                /\ StartStep("RateLimitError")
                /\ EndOfStart
           ELSE /\ room' = r
                /\ token' = t
                /\ startResult' = "pending"
                /\ pc' = "bot"
                /\ requests' = Append(answered,
                                      Request("start_bot", r, "", startConfig, "pending"))
                /\ StartStep("pending")
                /\ UNCHANGED startConfig
        /\ UNCHANGED <<state, config, expiry, callbacks, listeners>>

\* the outcomes of the bot-start fetch: fetch resolves on any HTTP status and
\* rejects on a network failure
BotStartOutcomes == {"2xx", "non-2xx", "network"}

\* a connect call with url and token exchanged
connectArgsSwapped(r, t) == Request("connect", t, r, EmptyRecord, "pending")

\* transport.connect({ url: room, token })
connectArgs(r, t) == Request("connect", r, t, EmptyRecord, "pending")

\* the bot-start request settles; when fetch resolves, transport.connect is called
start_botStart(outcome) ==
    LET settled == [requests EXCEPT ![2].outcome = outcome]
    IN  /\ pc = "bot"
        /\ IF outcome = "network"
           THEN /\ startResult' = "BotStartError"
                /\ pc' = "none"
                /\ requests' = settled
                /\ StartStep("BotStartError")
                /\ EndOfStart
           ELSE /\ startResult' = "pending"
                /\ pc' = "connect"
                /\ requests' = Append(settled, connectArgs(room, token))
                /\ StartStep("pending")
                /\ UNCHANGED <<room, token, startConfig>>
        /\ UNCHANGED <<state, config, expiry, callbacks, listeners>>

\* transport.connect settles
start_connect(ok) ==
    /\ pc = "connect"
    /\ requests' = [requests EXCEPT ![3].outcome = IF ok THEN "resolved" ELSE "rejected"]
    /\ startResult' = IF ok THEN "ok" ELSE "TransportError"
    /\ pc' = "none"
    /\ StartStep(IF ok THEN "ok" ELSE "TransportError")
    /\ EndOfStart
    /\ UNCHANGED <<state, config, expiry, callbacks, listeners>>

\* disconnect(): forwarded to the transport, no local state
disconnect ==
    /\ call' = Call("disconnect", NoArg, FALSE, FALSE, "ok", 0)
    /\ sent' = <<>>
    /\ trace' = <<>>
    /\ UNCHANGED <<state, config, expiry, callbacks, listeners, startVars>>

----------------------------------------------------------------------------
(* The transport and the application around the client *)

\* the transport moves its own state
TransportSetState(s) ==
    /\ state' = s
    /\ call' = Call("transportState", NoArg, FALSE, FALSE, "ok", 0)
    /\ sent' = <<>>
    /\ trace' = <<>>
    /\ UNCHANGED <<config, expiry, callbacks, listeners, startVars>>

\* the transport invokes an entry of the table it was constructed with
TransportCallback(name) ==
    /\ trace' = wrappedCallbacks(callbacks, listeners, name, NoArg)
    /\ call' = Call("transportCallback", Str(name), FALSE, FALSE, "ok", 0)
    /\ sent' = <<>>
    /\ UNCHANGED <<state, config, expiry, callbacks, listeners, startVars>>

\* client.on(event, listener): the listener is appended to the event's list
on(event) ==
    /\ SumOver(listeners, VoiceEvent) < MaxSubs
    /\ listeners' = [listeners EXCEPT ![event] = @ + 1]
    /\ call' = Call("on", NoArg, FALSE, FALSE, "ok", 0)
    /\ sent' = <<>>
    /\ trace' = <<>>
    /\ UNCHANGED <<state, config, expiry, callbacks, startVars>>

----------------------------------------------------------------------------
(* Specifications *)

CallbackChoices == {{}, CallbackNames}

\* the table entries the transport invokes in the session specification
SessionCallbacks == {"onConnected", "onConfigUpdated", "onTranscript"}

\* the session: every method, the handshake and the transport
Init == InitWith(SmallConfigs, CallbackChoices, Expiries)

Next ==
    \/ \E c \in SmallConfigs, d \in BOOLEAN, p \in BOOLEAN : updateConfig(c, d, p)
    \/ \E l \in {With(EmptyRecord, "model", Str("m1"))} : set_llmContext(l)
    \/ \E m \in AppendInputs : appendLLMContext(m)
    \/ \E t \in SayTexts, i \in BOOLEAN : say(t, i)
    \/ interrupt
    \/ transportExpiry
    \/ \E ev \in InboundMessages : handleMessage(ev)
    \/ start_begin
    \/ start_authThrows
    \/ \E r \in Rooms, t \in Tokens : start_authReturns(r, t)
    \/ \E o \in BotStartOutcomes : start_botStart(o)
    \/ \E ok \in BOOLEAN : start_connect(ok)
    \/ disconnect
    \/ \E s \in TransportState : TransportSetState(s)
    \/ \E n \in SessionCallbacks : TransportCallback(n)

Spec == Init /\ [][Next]_vars

\* the configuration merge over every pair of configurations, in and out of ready
InitMerge == InitWith(VoiceClientConfigOptions, {CallbackNames}, {1})

NextMerge ==
    \/ \E c \in VoiceClientConfigOptions, d \in BOOLEAN, p \in BOOLEAN : updateConfig(c, d, p)
    \/ \E l \in VoiceClientConfigLLM : set_llmContext(l)
    \/ handleMessage([type |-> BOT_READY, transcript |-> FALSE])
    \/ \E s \in {"connected", "disconnected"} : TransportSetState(s)

SpecMerge == InitMerge /\ [][NextMerge]_vars

\* the event bridge: subscriptions, transport callbacks and inbound messages
InitEv == InitWith({EmptyRecord}, CallbackChoices, {1})

NextEv ==
    \/ \E e \in VoiceEvent : on(e)
    \/ \E n \in CallbackNames : TransportCallback(n)
    \/ \E ev \in InboundMessages : handleMessage(ev)

SpecEv == InitEv /\ [][NextEv]_vars

----------------------------------------------------------------------------
(* Properties *)

\* how many entries of a trace are of the given kind and name
Count(tr, kind, name) ==
    Cardinality({i \in 1..Len(tr) : tr[i].kind = kind /\ tr[i].name = name})

\* position of the first entry of the given kind and name, 0 for none
First(tr, kind, name) ==
    IF Count(tr, kind, name) = 0 THEN 0
    ELSE CHOOSE i \in 1..Len(tr) :
            /\ tr[i].kind = kind /\ tr[i].name = name
            /\ \A j \in 1..(i - 1) : ~(tr[j].kind = kind /\ tr[j].name = name)

\* 1 when the caller supplied the callback, else 0
Supplied(name) == IF name \in callbacks THEN 1 ELSE 0

SenderOps == {"say", "interrupt", "appendLLMContext"}

\* the type tag of the message each sender passes to the transport
SenderMessageType(op) ==
    CASE op = "say" -> "speak"
      [] op = "interrupt" -> "interrupt"
      [] op = "appendLLMContext" -> "llm-context-append"

\* C1: say, interrupt and appendLLMContext called in a transport state other
\* than ready throw VoiceError and pass nothing to transport.sendMessage;
\* called in ready they pass exactly one message and throw nothing.
C1_SendersGatedOnReady ==
    call.op \in SenderOps =>
        IF call.pre = "ready"
        THEN /\ call.result = "ok"
             /\ Len(sent) = 1
             /\ sent[1].type = SenderMessageType(call.op)
        ELSE /\ call.result = "VoiceError"
             /\ sent = <<>>

\* C1 witness: interrupt() on a transport that is connected but not ready throws
C1_Witness ==
    /\ call.op = "interrupt"
    /\ call.pre = "connected"
    /\ call.result = "VoiceError"
    /\ sent = <<>>

\* C2: reading transportExpiry returns the transport's expiry exactly in the
\* states connected and ready and throws VoiceError in every other state; it
\* sends nothing and leaves the transport state and the configuration alone.
C2_ExpiryGatedOnConnected ==
    call.op = "transportExpiry" =>
        /\ IF call.pre \in {"connected", "ready"}
           THEN call.result = "ok" /\ call.ret = expiry
           ELSE call.result = "VoiceError"
        /\ sent = <<>>
        /\ state = call.pre
        /\ config = call.preConfig

\* C2 witness: the expiry is read from a transport that is connected, not ready
C2_Witness ==
    /\ call.op = "transportExpiry"
    /\ call.pre = "connected"
    /\ call.result = "ok"
    /\ call.ret = expiry

\* every key the partial configuration supplies is in the full one, with the
\* supplied value at each leaf
RECURSIVE Covers(_, _)
Covers(full, part) ==
    \A k \in DOMAIN part :
        /\ k \in DOMAIN full
        /\ IF part[k].kind = "rec"
           THEN full[k].kind = "rec" /\ Covers(full[k].val, part[k].val)
           ELSE full[k] = part[k]

\* C3: updateConfig called outside ready applies the update to the retained
\* configuration, runs the config-updated callback (when supplied) and emits
\* the config-updated event once each with the whole retained configuration,
\* passes nothing to transport.sendMessage and throws nothing.
C3_UpdateConfigNotReady ==
    (call.op = "updateConfig" /\ call.pre # "ready") =>
        /\ Covers(config, call.arg.val)
        /\ DOMAIN call.preConfig \subseteq DOMAIN config
        /\ call.result = "ok"
        /\ sent = <<>>
        /\ Count(trace, "callback", "onConfigUpdated") = Supplied("onConfigUpdated")
        /\ Count(trace, "emit", "ConfigUpdated") = 1
        /\ Len(trace) = Supplied("onConfigUpdated") + 1 + listeners["ConfigUpdated"]
        /\ \A i \in 1..Len(trace) : trace[i].arg = Rec(config)

\* C3 witness: a handshaking client takes a configuration, tells its callback
\* and its event, and sends nothing
C3_Witness ==
    /\ call.op = "updateConfig"
    /\ call.pre = "handshaking"
    /\ config # call.preConfig
    /\ sent = <<>>
    /\ Len(trace) = 2
    /\ trace[1].kind = "callback"
    /\ trace[2].kind = "emit"

\* C4 (as claimed): after updateConfig(C2, useDeepMerge = false) the retained
\* configuration is C2 itself, no key of the old configuration remaining.
C4_WholesaleReplace ==
    (call.op = "updateConfig" /\ ~call.useDeepMerge) => config = call.arg.val

\* C4 (amended): after updateConfig(C2, useDeepMerge = false) every top-level
\* key of C2 holds C2's value, replaced as a whole, and every top-level key of
\* the old configuration that C2 lacks keeps its old value.
C4_ShallowMerge ==
    (call.op = "updateConfig" /\ ~call.useDeepMerge) =>
        LET c1 == call.preConfig
            c2 == call.arg.val
        IN  /\ DOMAIN config = DOMAIN c1 \cup DOMAIN c2
            /\ \A k \in DOMAIN c2 : config[k] = c2[k]
            /\ \A k \in DOMAIN c1 \ DOMAIN c2 : config[k] = c1[k]

\* C4 witness: the old tts section survives an update that supplies only llm,
\* while the old llm section is replaced as a whole
C4_Witness ==
    /\ call.op = "updateConfig" /\ ~call.useDeepMerge
    /\ "tts" \in DOMAIN call.preConfig /\ "tts" \notin DOMAIN call.arg.val
    /\ "llm" \in DOMAIN call.preConfig /\ "llm" \in DOMAIN call.arg.val
    /\ call.preConfig["llm"] # call.arg.val["llm"]
    /\ config["llm"] = call.arg.val["llm"]
    /\ config["tts"] = call.preConfig["tts"]

\* r has the keys of x and of y; a key of one side only keeps its value, and
\* so on inside every section both sides have
RECURSIVE KeepsOneSided(_, _, _)
KeepsOneSided(x, y, r) ==
    /\ DOMAIN r = DOMAIN x \cup DOMAIN y
    /\ \A k \in DOMAIN x \ DOMAIN y : r[k] = x[k]
    /\ \A k \in DOMAIN y \ DOMAIN x : r[k] = y[k]
    /\ \A k \in DOMAIN x \cap DOMAIN y :
          (x[k].kind = "rec" /\ y[k].kind = "rec") =>
              (r[k].kind = "rec" /\ KeepsOneSided(x[k].val, y[k].val, r[k].val))

\* C5: after updateConfig(C2, useDeepMerge = true) no key that only one of the
\* old configuration and C2 has is lost, at the top level or inside a section;
\* with disjoint top-level keys the result has the keys of both, values unchanged.
C5_DeepMergeKeepsKeys ==
    (call.op = "updateConfig" /\ call.useDeepMerge) =>
        LET c1 == call.preConfig
            c2 == call.arg.val
        IN  /\ KeepsOneSided(c1, c2, config)
            /\ ((DOMAIN c1 \cap DOMAIN c2 = {}) =>
                   (/\ DOMAIN config = DOMAIN c1 \cup DOMAIN c2
                    /\ \A k \in DOMAIN c1 : config[k] = c1[k]
                    /\ \A k \in DOMAIN c2 : config[k] = c2[k]))

\* C5 witness: the old configuration has tts and llm.model, C2 has only
\* llm.messages, and the result has all three
C5_Witness ==
    /\ call.op = "updateConfig" /\ call.useDeepMerge
    /\ DOMAIN call.arg.val = {"llm"}
    /\ DOMAIN call.arg.val["llm"].val = {"messages"}
    /\ DOMAIN call.preConfig = {"llm", "tts"}
    /\ DOMAIN call.preConfig["llm"].val = {"model"}
    /\ DOMAIN config = {"llm", "tts"}
    /\ DOMAIN config["llm"].val = {"model", "messages"}

\* wherever y holds an array, r holds the same array
RECURSIVE ArraysFrom(_, _)
ArraysFrom(y, r) ==
    \A k \in DOMAIN y :
        /\ k \in DOMAIN r
        /\ (y[k].kind = "arr" => r[k] = y[k])
        /\ (y[k].kind = "rec" => (r[k].kind = "rec" /\ ArraysFrom(y[k].val, r[k].val)))

\* C6: after updateConfig(C2, useDeepMerge = true) every array C2 supplies
\* (llm.messages) is the retained value of its key as it is, neither
\* concatenated with nor merged into the array held before.
C6_ArraysReplaced ==
    (call.op = "updateConfig" /\ call.useDeepMerge) => ArraysFrom(call.arg.val, config)

\* C6 witness: the old llm.messages and C2's llm.messages are different
\* non-empty arrays, and C2's is retained
C6_Witness ==
    /\ call.op = "updateConfig" /\ call.useDeepMerge
    /\ "llm" \in DOMAIN call.preConfig /\ "llm" \in DOMAIN call.arg.val
    /\ "messages" \in DOMAIN call.preConfig["llm"].val
    /\ "messages" \in DOMAIN call.arg.val["llm"].val
    /\ call.preConfig["llm"].val["messages"].val # <<>>
    /\ call.arg.val["llm"].val["messages"].val # <<>>
    /\ call.preConfig["llm"].val["messages"] # call.arg.val["llm"].val["messages"]
    /\ config["llm"].val["messages"] = call.arg.val["llm"].val["messages"]

\* C7: updateConfig called in ready passes exactly one config message to the
\* transport, carrying the supplied configuration when sendPartial is set and
\* the whole retained configuration otherwise; what is retained is decided by
\* the old configuration, the supplied one and useDeepMerge, not by sendPartial.
C7_SendPartial ==
    (call.op = "updateConfig" /\ call.pre = "ready") =>
        /\ Len(sent) = 1
        /\ sent[1].type = "config"
        /\ sent[1].data = Rec(IF call.sendPartial THEN call.arg.val ELSE config)
        /\ config = ConfigSetter(call.preConfig,
                                 updateConfigValue(call.preConfig, call.arg.val,
                                                   call.useDeepMerge))

\* C7 witness: a partial send whose message is not the retained configuration
C7_Witness ==
    /\ call.op = "updateConfig" /\ call.pre = "ready"
    /\ call.sendPartial
    /\ Len(sent) = 1
    /\ sent[1].data = call.arg
    /\ call.arg # Rec(config)

\* the latest operation delivered a bot-ready message that is no transcript
BotReadyDelivered ==
    /\ call.op = "handleMessage"
    /\ call.arg.val.type = BOT_READY
    /\ ~call.arg.val.transcript

\* C8: a bot-ready message that is no transcript, handled in any transport
\* state, leaves the state ready, runs the caller's onBotReady once when one
\* was supplied and emits the bot-ready event once, and runs nothing else.
C8_BotReady ==
    BotReadyDelivered =>
        /\ state = "ready"
        /\ Count(trace, "callback", "onBotReady") = Supplied("onBotReady")
        /\ Count(trace, "emit", "BotReady") = 1
        /\ Len(trace) = Supplied("onBotReady") + 1 + listeners["BotReady"]

\* C8 witness: bot-ready reaches a client whose transport had disconnected and
\* that was given no callbacks; the state becomes ready and the event is emitted
C8_Witness ==
    /\ BotReadyDelivered
    /\ call.pre = "disconnected"
    /\ callbacks = {}
    /\ state = "ready"
    /\ Len(trace) = 1
    /\ trace[1].kind = "emit" /\ trace[1].name = "BotReady"

\* the named event of a table entry
NamedEventOf(name) ==
    IF name \in WrappedNames THEN EventOf(name) ELSE UnbridgedEventOf(name)

\* the table entry the latest operation invoked, "" for none
Occurrence ==
    CASE call.op = "transportCallback" -> call.arg.val
      [] call.op = "handleMessage" /\ call.arg.val.transcript -> "onTranscript"
      [] call.op = "handleMessage" /\ ~call.arg.val.transcript
            /\ call.arg.val.type = BOT_READY -> "onBotReady"
      [] call.op \in {"updateConfig", "llmContext"} -> "onConfigUpdated"
      [] OTHER -> ""

\* the trace of one occurrence of `name': the caller's callback when supplied,
\* then the emit, then the listeners of the event in subscription order
Bridged(name, tr) ==
    LET e == NamedEventOf(name)
        k == Supplied(name)
    IN  /\ Len(tr) = k + 1 + listeners[e]
        /\ (k = 1 => (tr[1].kind = "callback" /\ tr[1].name = name))
        /\ tr[k + 1].kind = "emit" /\ tr[k + 1].name = e
        /\ \A i \in 1..listeners[e] :
              /\ tr[k + 1 + i].kind = "listener"
              /\ tr[k + 1 + i].name = e
              /\ tr[k + 1 + i].idx = i

\* C9 (as claimed): every occurrence delivered through the callback table runs
\* the caller's callback, when supplied, once and before the emit of the named
\* event, which happens once, supplied or not, followed by the event's
\* listeners in subscription order.
C9_CallbackThenEvent ==
    Occurrence # "" => Bridged(Occurrence, trace)

\* what holds of the code: the same, of the entries the constructor wraps
WrappedEntriesBridged ==
    Occurrence \in WrappedNames => Bridged(Occurrence, trace)

\* C10 (as claimed): the entries onTranscript, onBotConnected, onBotDisconnected
\* and onJsonCompletion have a named event too: an occurrence of one of them (a
\* transcript handed to handleMessage among them) runs the caller's callback
\* when supplied and then emits the event, once each.
C10_EveryEntryHasEvent ==
    Occurrence \in CallbackNames \ WrappedNames =>
        /\ Count(trace, "callback", Occurrence) = Supplied(Occurrence)
        /\ Count(trace, "emit", UnbridgedEventOf(Occurrence)) = 1
        /\ (Supplied(Occurrence) = 1 =>
              First(trace, "callback", Occurrence)
                  < First(trace, "emit", UnbridgedEventOf(Occurrence)))

----------------------------------------------------------------------------
(* Transcript dispatch *)

TranscriptDelivered ==
    /\ call.op = "handleMessage"
    /\ call.arg.val.transcript

\* C11: a message that is structurally a transcript, whatever its type tag
\* (bot-ready included), leaves the transport state as it was, runs only the
\* caller's onTranscript (once when supplied) and runs no bot-ready callback
\* and emits no bot-ready event.
C11_TranscriptOnly ==
    TranscriptDelivered =>
        /\ state = call.pre
        /\ Len(trace) = Supplied("onTranscript")
        /\ \A i \in 1..Len(trace) :
              trace[i].kind = "callback" /\ trace[i].name = "onTranscript"
        /\ Count(trace, "callback", "onBotReady") = 0
        /\ Count(trace, "emit", EventOf("onBotReady")) = 0

\* a transcript tagged bot-ready arrived on a connected transport with every
\* callback supplied: the state is still connected
C11_Witness ==
    /\ TranscriptDelivered
    /\ call.arg.val.type = BOT_READY
    /\ call.pre = "connected"
    /\ state = "connected"
    /\ callbacks = CallbackNames
    /\ Len(trace) = 1

----------------------------------------------------------------------------
(* The handshake of start() *)

\* the external requests of start() in the order the code issues them
HandshakeOrder == <<"authenticate", "start_bot", "connect">>

\* C12: the external requests of one start() are a prefix of authenticate,
\* start_bot, connect, each made at most once; a request is issued only after
\* the one before it has completed (authentication returned data, the bot-start
\* fetch resolved); when authentication returned room r and token t and
\* bot-start answered 2xx, connect has been invoked once with url r and token t.
C12_HandshakeOrder ==
    /\ Len(requests) <= Len(HandshakeOrder)
    /\ \A i \in 1..Len(requests) : requests[i].name = HandshakeOrder[i]
    /\ \A i \in 1..(Len(requests) - 1) : requests[i].outcome # "pending"
    /\ (Len(requests) >= 2 => requests[1].outcome = "returned")
    /\ (Len(requests) >= 2 => requests[2].room = requests[1].room)
    /\ (Len(requests) = 3 => requests[2].outcome \in {"2xx", "non-2xx"})
    /\ (Len(requests) >= 2 /\ requests[2].outcome = "2xx" =>
            /\ Len(requests) = 3
            /\ requests[3].room = requests[1].room
            /\ requests[3].token = requests[1].token)

\* authentication returned r1 and t1, bot-start answered 2xx and connect was
\* invoked with them and resolved
C12_Witness ==
    /\ call.op = "start"
    /\ call.result = "ok"
    /\ Len(requests) = 3
    /\ requests[1].room = "r1"
    /\ requests[1].token = "t1"
    /\ requests[2].outcome = "2xx"
    /\ requests[3] = Request("connect", "r1", "t1", EmptyRecord, "resolved")

\* C13: a start() whose authentication call threw (rejected fetch or a body
\* that is no JSON) fails with AuthenticationError; one whose authentication
\* returned data with room or token missing or empty fails with
\* RateLimitError; one whose bot-start fetch threw fails with BotStartError.
\* None of these runs invokes transport.connect, and with AuthenticationError
\* or RateLimitError no bot-start request is issued.
C13_HandshakeErrors ==
    /\ (Len(requests) >= 1 /\ requests[1].outcome = "threw" =>
            startResult = "AuthenticationError")
    /\ (Len(requests) >= 1 /\ requests[1].outcome = "returned"
            /\ (requests[1].room = "" \/ requests[1].token = "") =>
            startResult = "RateLimitError")
    /\ (Len(requests) >= 2 /\ requests[2].outcome = "network" =>
            startResult = "BotStartError")
    /\ (startResult = "AuthenticationError" =>
            Len(requests) = 1 /\ requests[1].outcome = "threw")
    /\ (startResult = "RateLimitError" =>
            /\ Len(requests) = 1
            /\ requests[1].outcome = "returned"
            /\ (requests[1].room = "" \/ requests[1].token = ""))
    /\ (startResult = "BotStartError" =>
            Len(requests) = 2 /\ requests[2].outcome = "network")

\* authentication returned a room and no token: RateLimitError, and the
\* authentication request is the only one made
C13_Witness ==
    /\ call.op = "start"
    /\ call.result = "RateLimitError"
    /\ requests = <<Request("authenticate", "r1", "", EmptyRecord, "returned")>>

\* C14: a bot-start request that failed, by a network failure or by a non-2xx
\* response, makes start() fail with BotStartError, and transport.connect is
\* not invoked after it.
C14_BotStartFailureFails ==
    (Len(requests) >= 2 /\ requests[2].outcome \in {"network", "non-2xx"}) =>
        /\ startResult = "BotStartError"
        /\ Len(requests) = 2

----------------------------------------------------------------------------
(* Errors and the callback table *)

\* the errors the client itself throws
ClientErrors == {"AuthenticationError", "RateLimitError", "BotStartError", "VoiceError"}

\* C15: a call of start(), say(), interrupt(), appendLLMContext() or
\* transportExpiry that fails with AuthenticationError, RateLimitError,
\* BotStartError or VoiceError runs no caller callback and emits no event.
C15_ErrorsAreNotEvents ==
    (/\ call.op \in {"start", "transportExpiry"} \cup SenderOps
     /\ call.result \in ClientErrors) =>
        trace = <<>>

\* start() failed with RateLimitError while every callback was supplied, and
\* nothing of the table ran
C15_Witness ==
    /\ call.op = "start"
    /\ call.result = "RateLimitError"
    /\ callbacks = CallbackNames
    /\ trace = <<>>

----------------------------------------------------------------------------
(* The llmContext setter *)

\* the llm section of a configuration, empty when there is none
LLMSection(cfg) == IF "llm" \in DOMAIN cfg THEN cfg["llm"].val ELSE EmptyRecord

\* C16: after llmContext = L the llm section holds the keys of the old section
\* and of L, with the values of L where L has the key and the old values
\* elsewhere; every other section is as before; one llm-context-update message
\* carrying L was passed to the transport exactly when the state was ready;
\* the config-updated callback (when supplied) and the config-updated event
\* ran once each with the whole resulting configuration.
C16_LLMContextSetter ==
    call.op = "llmContext" =>
        LET old == call.preConfig
            L   == call.arg.val
        IN  /\ DOMAIN config = DOMAIN old \cup {"llm"}
            /\ \A k \in DOMAIN old \ {"llm"} : config[k] = old[k]
            /\ config["llm"].kind = "rec"
            /\ DOMAIN LLMSection(config) = DOMAIN LLMSection(old) \cup DOMAIN L
            /\ \A k \in DOMAIN L : LLMSection(config)[k] = L[k]
            /\ \A k \in DOMAIN LLMSection(old) \ DOMAIN L :
                  LLMSection(config)[k] = LLMSection(old)[k]
            /\ state = call.pre
            /\ sent = IF call.pre = "ready"
                      THEN <<[type |-> "llm-context-update", data |-> Rec(L)]>>
                      ELSE <<>>
            /\ Count(trace, "callback", "onConfigUpdated") = Supplied("onConfigUpdated")
            /\ Count(trace, "emit", "ConfigUpdated") = 1
            /\ Len(trace) = Supplied("onConfigUpdated") + 1 + listeners["ConfigUpdated"]
            /\ \A i \in 1..Len(trace) : trace[i].arg = Rec(config)

\* a ready client holding a model, messages and a tts section is given other
\* messages: the model and the tts section stay, the messages are those of L,
\* and L went to the transport
C16_Witness ==
    /\ call.op = "llmContext"
    /\ call.pre = "ready"
    /\ "tts" \in DOMAIN call.preConfig
    /\ DOMAIN LLMSection(call.preConfig) = {"model", "messages"}
    /\ DOMAIN call.arg.val = {"messages"}
    /\ call.arg.val["messages"] # LLMSection(call.preConfig)["messages"]
    /\ LLMSection(config)["messages"] = call.arg.val["messages"]
    /\ LLMSection(config)["model"] = LLMSection(call.preConfig)["model"]
    /\ config["tts"] = call.preConfig["tts"]
    /\ Len(sent) = 1

----------------------------------------------------------------------------
(* The frame of the retained configuration *)

\* the operations through which the retained configuration is assigned
ConfigWriters == {"updateConfig", "llmContext"}

\* C17: whatever ran last, unless it was updateConfig or the llmContext
\* setter, left the retained configuration as it found it: the steps of
\* start(), disconnect(), say(), interrupt(), appendLLMContext() accepted or
\* refused, transportExpiry, handleMessage, the transport's state writes and
\* the transport's callbacks.
C17_ConfigFrame ==
    call.op \notin ConfigWriters => config = call.preConfig

\* an accepted appendLLMContext on a client that retains an llm section: the
\* messages went to the transport and the retained configuration is as before
C17_Witness ==
    /\ call.op = "appendLLMContext"
    /\ call.result = "ok"
    /\ Len(sent) = 1
    /\ "llm" \in DOMAIN config
    /\ config = call.preConfig

----------------------------------------------------------------------------
(* The transport state across the session *)

\* C18: every step that leaves the transport state ready without having found
\* it ready found it connected.
C18_ReadyOnlyFromConnected ==
    (state = "ready" /\ call.pre # "ready") => call.pre = "connected"

\* C19: the body of the bot-start request just issued carries the retained
\* configuration of that moment.
C19_BotStartCarriesCurrentConfig ==
    (call.op = "start" /\ pc = "bot") => requests[2].config = config

\* the errors of start() raised before transport.connect
HandshakeErrors == {"AuthenticationError", "RateLimitError", "BotStartError"}

\* C20: the first stretch of start() leaves the state handshaking whatever it
\* was, with the authentication request issued and not yet answered; a step of
\* start() that fails with AuthenticationError, RateLimitError or BotStartError
\* leaves the state as that step found it, handshaking when nothing else wrote
\* it since; and a sender called in handshaking fails with VoiceError.
C20_HandshakingNotRestored ==
    /\ (call.op = "start" /\ pc = "auth") =>
            /\ state = "handshaking"
            /\ requests = <<Request("authenticate", "", "", EmptyRecord, "pending")>>
    /\ (call.op = "start" /\ call.result \in HandshakeErrors) => state = call.pre
    /\ (call.op \in SenderOps /\ call.pre = "handshaking") =>
            call.result = "VoiceError" /\ state = "handshaking"

\* start() has failed with RateLimitError and the state is still handshaking
C20_Witness ==
    /\ call.op = "start"
    /\ call.result = "RateLimitError"
    /\ pc = "none"
    /\ call.pre = "handshaking"
    /\ state = "handshaking"

====
